---- MODULE Spec2Model ----
(***************************************************************************)
(* A model of SkipList<K, V> (src/project2-main/project2-main/src/         *)
(* SkipList.hpp) for K = int, V = int.  The heap is a function from node   *)
(* addresses to Node records; the four link fields hold addresses, NULL    *)
(* is the null pointer.  The members of the class are the variables.       *)
(***************************************************************************)
EXTENDS Integers, Sequences, FiniteSets, TLC

VARIABLES heap, front, back, topFront, topBack, SkipListSize, SkipListLayers,
          op, arg, argv, ret, hist, pc, frame

vars == <<heap, front, back, topFront, topBack, SkipListSize, SkipListLayers,
          op, arg, argv, ret, hist, pc, frame>>

(* ------------------------------ bounds -------------------------------- *)

\* Most keys the driver of Spec keeps in the container at once.
MaxSize == 3

\* Keys and values the driver of Spec passes in.  -1 is 0xFFFFFFFF as an
\* unsigned int (hash 0, height 1), 0 is the default-constructed key the
\* sentinels hold (height 1), 1 has height 2, 3 has height 3.
Keys == {-1, 0, 1, 3}

Values == {7, 8}

(* ------------------------- promotion function ------------------------- *)

NULL == 0

NUMBER_OF_BITS_IN_BYTE == 8

Pow2(n) == 2^n

\* (key & (0xFF << byte)) >> byte.  An int argument is converted to the
\* unsigned int parameter with its 32 bits kept (two's complement); \div
\* rounds down and % is never negative, so this is that byte for a negative
\* key too: byte 0 of -1 is 255.
flipCoinByteSelector(key, byte) == (key \div Pow2(byte)) % 256

Bit(b, i) == (b \div Pow2(i)) % 2

RECURSIVE XorFrom(_, _, _)
XorFrom(a, b, i) ==
    IF i = NUMBER_OF_BITS_IN_BYTE THEN 0
    ELSE (IF Bit(a, i) # Bit(b, i) THEN Pow2(i) ELSE 0) + XorFrom(a, b, i + 1)

\* operator^ of std::byte
ByteXor(a, b) == XorFrom(a, b, 0)

\* Hash from the two low bytes only.  (A variant, to see that C16 rests on all
\* four bytes.)
HashLowBytes(key) ==
    ByteXor(flipCoinByteSelector(key, 8), flipCoinByteSelector(key, 0))

\* The hash of flipCoin: the XOR of the four bytes of the key.
Hash(key) ==
    LET firstByte  == flipCoinByteSelector(key, 24)
        secondByte == flipCoinByteSelector(key, 16)
        thirdByte  == flipCoinByteSelector(key, 8)
        fourthByte == flipCoinByteSelector(key, 0)
    IN ByteXor(ByteXor(ByteXor(firstByte, secondByte), thirdByte), fourthByte)

flipCoin(key, previousFlips) ==
    Bit(Hash(key), previousFlips % NUMBER_OF_BITS_IN_BYTE) # 0

\* The hash of the std::string overload: the XOR of the characters, each
\* converted to std::byte (0 .. 255), from an all-zero byte.
RECURSIVE HashString(_)
HashString(key) ==
    IF key = <<>> THEN 0 ELSE ByteXor(HashString(Tail(key)), Head(key))

flipCoinString(key, previousFlips) ==
    Bit(HashString(key), previousFlips % NUMBER_OF_BITS_IN_BYTE) # 0

(* ------------------------------- heap --------------------------------- *)

\* Node(k, v): the four links start as nullptr.
Node(k, v) == [key |-> k, value |-> v, next |-> NULL, up |-> NULL,
               down |-> NULL, previous |-> NULL]

\* The sentinels are built as Node({}, {}): key and value are value-initialised.
DefaultKey == 0

DefaultValue == 0

\* The address operator new returns: any address not in use; the model takes
\* the least one.
RECURSIVE LeastFree(_, _)
LeastFree(h, n) == IF n \in DOMAIN h THEN LeastFree(h, n + 1) ELSE n

New(h, node) == [n \in DOMAIN h \cup {LeastFree(h, 1)} |->
                    IF n \in DOMAIN h THEN h[n] ELSE node]

Delete(h, n) == [m \in DOMAIN h \ {n} |-> h[m]]

\* The object: the members of the class, passed to and returned by the
\* operators below.
Self == [heap |-> heap, front |-> front, back |-> back, topFront |-> topFront,
         topBack |-> topBack, SkipListSize |-> SkipListSize,
         SkipListLayers |-> SkipListLayers]

\* SkipList(): two layers of two sentinels each.
Constructed ==
    [heap |->
        (1 :> [Node(DefaultKey, DefaultValue) EXCEPT !.up = 3, !.next = 2]) @@
        (2 :> [Node(DefaultKey, DefaultValue) EXCEPT !.previous = 1, !.up = 4]) @@
        (3 :> [Node(DefaultKey, DefaultValue) EXCEPT !.down = 1, !.next = 4]) @@
        (4 :> [Node(DefaultKey, DefaultValue) EXCEPT !.previous = 3, !.down = 2]),
     front |-> 1, back |-> 2, topFront |-> 3, topBack |-> 4,
     SkipListSize |-> 0, SkipListLayers |-> 2]

(* ------------------------------ locate -------------------------------- *)

\* The descent shared by findNode and insert: from tmp down to the base layer.
RECURSIVE Descend(_, _, _)
Descend(h, tmp, key) ==
    IF h[tmp].down = NULL THEN tmp
    ELSE IF h[h[tmp].next].next # NULL /\ h[h[tmp].next].key < key
         THEN Descend(h, h[tmp].next, key)
         ELSE Descend(h, h[tmp].down, key)

\* findScan with >= where the code has ==: the scan takes the first key that
\* is not smaller for a match.  (A variant, to see that C7 rests on the test.)
RECURSIVE findScanNotSmaller(_, _, _)
findScanNotSmaller(h, tmp, key) ==
    IF h[h[tmp].next].next # NULL
    THEN IF h[h[tmp].next].key >= key THEN h[tmp].next
         ELSE findScanNotSmaller(h, h[tmp].next, key)
    ELSE NULL

\* The base-layer scan of findNode; NULL stands for throw std::out_of_range.
RECURSIVE findScan(_, _, _)
findScan(h, tmp, key) ==
    IF h[h[tmp].next].next # NULL
    THEN IF h[h[tmp].next].key = key THEN h[tmp].next
         ELSE findScan(h, h[tmp].next, key)
    ELSE NULL

findNode(L, key) == findScan(L.heap, Descend(L.heap, L.topFront, key), key)

(* ------------------------------ queries ------------------------------- *)

\* What a call gives back: the exception it throws, if any, and the value it
\* returns (a bool as 1 or 0, void as 0).
Returns(v) == [exc |-> "none", val |-> v]

Throws(e) == [exc |-> e, val |-> 0]

Bool(b) == IF b THEN 1 ELSE 0

size(L) == L.SkipListSize

empty(L) == L.SkipListSize = 0

layers(L) == L.SkipListLayers

RECURSIVE CountUp(_, _, _)
CountUp(h, tmp, n) == IF h[tmp].up # NULL THEN CountUp(h, h[tmp].up, n + 1) ELSE n

\* height with the count started at 0: the up links, not the nodes.  (A
\* variant, to see that C12 rests on the count.)
heightInLinks(L, key) ==
    LET tmp == findNode(L, key)
    IN IF tmp = NULL THEN Throws("out_of_range")
       ELSE Returns(CountUp(L.heap, tmp, 0))

height(L, key) ==
    LET tmp == findNode(L, key)
    IN IF tmp = NULL THEN Throws("out_of_range")
       ELSE Returns(CountUp(L.heap, tmp, 1))

nextKey(L, key) ==
    LET tmp == findNode(L, key)
    IN IF tmp = NULL THEN Throws("out_of_range")
       ELSE IF L.heap[L.heap[tmp].next].next = NULL THEN Throws("runtime_error")
       ELSE Returns(L.heap[L.heap[tmp].next].key)

previousKey(L, key) ==
    LET tmp == findNode(L, key)
    IN IF tmp = NULL THEN Throws("out_of_range")
       ELSE IF L.heap[L.heap[tmp].previous].previous = NULL THEN Throws("runtime_error")
       ELSE Returns(L.heap[L.heap[tmp].previous].key)

find(L, key) ==
    LET tmp == findNode(L, key)
    IN IF tmp = NULL THEN Throws("out_of_range") ELSE Returns(L.heap[tmp].value)

RECURSIVE KeysFrom(_, _, _)
KeysFrom(h, tmp, stop) ==
    IF tmp = stop THEN <<>> ELSE <<h[tmp].key>> \o KeysFrom(h, h[tmp].next, stop)

allKeysInOrder(L) == KeysFrom(L.heap, L.heap[L.front].next, L.back)

\* isSmallestKey with front in the place of front -> next.  (A variant, to
\* see that C14 rests on the node compared.)
isSmallestKeyAtFront(L, key) ==
    IF findNode(L, key) = NULL THEN Throws("out_of_range")
    ELSE Returns(Bool(L.heap[L.front].key = key))

isSmallestKey(L, key) ==
    IF findNode(L, key) = NULL THEN Throws("out_of_range")
    ELSE Returns(Bool(L.heap[L.heap[L.front].next].key = key))

isLargestKey(L, key) ==
    IF findNode(L, key) = NULL THEN Throws("out_of_range")
    ELSE Returns(Bool(L.heap[L.heap[L.back].previous].key = key))

(* ------------------------------- insert ------------------------------- *)

\* insertScan without the walk along the base layer: the new node goes in
\* where the descent ended.  (A variant, to see that C15 rests on the walk.)
insertScanNoWalk(h, tmp, key) == tmp

\* The base-layer loop of insert; NULL stands for return false.
RECURSIVE insertScan(_, _, _)
insertScan(h, tmp, key) ==
    IF h[h[tmp].next].next # NULL /\ h[h[tmp].next].key < key
    THEN IF h[tmp].key = key THEN NULL ELSE insertScan(h, h[tmp].next, key)
    ELSE tmp

\* The node insert splices newNode after.
insertPoint(L, key) == insertScan(L.heap, Descend(L.heap, L.topFront, key), key)

\* newNode is linked in after tmp and the key count goes up.
BaseSplice(L, tmp, key, value) ==
    LET h == L.heap
        newNode == LeastFree(h, 1)
        h1 == New(h, [Node(key, value) EXCEPT !.previous = tmp, !.next = h[tmp].next])
    IN [L EXCEPT !.heap = [h1 EXCEPT ![h[tmp].next].previous = newNode,
                                     ![tmp].next = newNode],
                 !.SkipListSize = @ + 1]

\* StartFrame with numberOfFlips started at 1.  (A variant, to see that C19
\* rests on the attempts being counted from 0.)
StartFrameSecondFlip(L, tmp, key, value) ==
    [key |-> key, value |-> value, numberOfFlips |-> 1, randTmp |-> tmp,
     randTmp2 |-> L.heap[tmp].next, layers |-> 1]

\* StartFrame with layers started at 0.  (A variant, to see that C20 rests on
\* the count of the layers the tower has.)
StartFrameNoLayer(L, tmp, key, value) ==
    [key |-> key, value |-> value, numberOfFlips |-> 0, randTmp |-> tmp,
     randTmp2 |-> L.heap[tmp].next, layers |-> 0]

\* The locals of insert as the promotion loop starts.
StartFrame(L, tmp, key, value) ==
    [key |-> key, value |-> value, numberOfFlips |-> 0, randTmp |-> tmp,
     randTmp2 |-> L.heap[tmp].next, layers |-> 1]

NoFrame == [key |-> 0, value |-> 0, numberOfFlips |-> 0, randTmp |-> NULL,
            randTmp2 |-> NULL, layers |-> 0]

\* A new top layer of two sentinels above the current one.
AddLayer(L) ==
    LET h == L.heap
        newTop == LeastFree(h, 1)
        h1 == New(h, Node(DefaultKey, DefaultValue))
        newTopBack == LeastFree(h1, 1)
        h2 == New(h1, Node(DefaultKey, DefaultValue))
    IN [L EXCEPT !.heap = [h2 EXCEPT ![newTop].down = L.topFront,
                                     ![newTopBack].down = L.topBack,
                                     ![newTop].next = newTopBack,
                                     ![newTopBack].previous = newTop,
                                     ![L.topFront].up = newTop,
                                     ![L.topBack].up = newTopBack],
                 !.topFront = newTop,
                 !.topBack = newTopBack,
                 !.SkipListLayers = @ + 1]

\* WalkBack all the way to the front sentinel of the layer.  (A variant, to
\* see that C21 rests on the walk ending at the nearest node with an up link.)
RECURSIVE WalkBackToFront(_, _)
WalkBackToFront(h, randTmp) ==
    IF h[randTmp].previous = NULL THEN randTmp
    ELSE WalkBackToFront(h, h[randTmp].previous)

\* while (randTmp -> up == nullptr) randTmp = randTmp -> previous;
RECURSIVE WalkBack(_, _)
WalkBack(h, randTmp) ==
    IF h[randTmp].up = NULL THEN WalkBack(h, h[randTmp].previous) ELSE randTmp

RECURSIVE CeilLog2From(_, _)
CeilLog2From(n, c) == IF Pow2(c) >= n THEN c ELSE CeilLog2From(n, c + 1)

\* ceil(log2(n)) for n >= 1
CeilLog2(n) == CeilLog2From(n, 0)

\* The two tests that end the promotion loop with break.
CapBreak(L) ==
    \/ L.SkipListSize <= 16 /\ L.SkipListLayers = 13
    \/ L.SkipListSize > 16 /\ L.SkipListLayers = 3 * CeilLog2(L.SkipListSize) + 1

\* PromoteIter without randTmp2 -> up = newLayer: the node below is not told
\* of the one above.  (A variant, to see that C18 rests on line 515.)
PromoteIterNoUpLink(L, f) ==
    LET L1 == IF f.layers = L.SkipListLayers - 1 THEN AddLayer(L) ELSE L
        h == L1.heap
        randTmp == h[WalkBack(h, f.randTmp)].up
        newLayer == LeastFree(h, 1)
        h1 == New(h, [Node(f.key, f.value) EXCEPT !.previous = randTmp,
                                                  !.down = f.randTmp2,
                                                  !.next = h[randTmp].next])
        L2 == [L1 EXCEPT !.heap = [h1 EXCEPT ![h[randTmp].next].previous = newLayer,
                                             ![randTmp].next = newLayer]]
        brk == CapBreak(L2)
    IN [L |-> L2,
        brk |-> brk,
        f |-> [f EXCEPT !.randTmp = randTmp,
                        !.randTmp2 = newLayer,
                        !.layers = IF brk THEN @ ELSE @ + 1,
                        !.numberOfFlips = IF brk THEN @ ELSE @ + 1]]

\* PromoteIter with the layer added one pass late, when layers has come to
\* SkipListLayers.  (A variant, to see that C17 rests on the test of line 479.)
PromoteIterLateLayer(L, f) ==
    LET L1 == IF f.layers = L.SkipListLayers THEN AddLayer(L) ELSE L
        h == L1.heap
        randTmp == h[WalkBack(h, f.randTmp)].up
        newLayer == LeastFree(h, 1)
        h1 == New(h, [Node(f.key, f.value) EXCEPT !.previous = randTmp,
                                                  !.down = f.randTmp2,
                                                  !.next = h[randTmp].next])
        L2 == [L1 EXCEPT !.heap = [h1 EXCEPT ![f.randTmp2].up = newLayer,
                                             ![h[randTmp].next].previous = newLayer,
                                             ![randTmp].next = newLayer]]
        brk == CapBreak(L2)
    IN [L |-> L2,
        brk |-> brk,
        f |-> [f EXCEPT !.randTmp = randTmp,
                        !.randTmp2 = newLayer,
                        !.layers = IF brk THEN @ ELSE @ + 1,
                        !.numberOfFlips = IF brk THEN @ ELSE @ + 1]]

\* One pass through the body of the promotion loop.
PromoteIter(L, f) ==
    LET L1 == IF f.layers = L.SkipListLayers - 1 THEN AddLayer(L) ELSE L
        h == L1.heap
        randTmp == h[WalkBack(h, f.randTmp)].up
        newLayer == LeastFree(h, 1)
        h1 == New(h, [Node(f.key, f.value) EXCEPT !.previous = randTmp,
                                                  !.down = f.randTmp2,
                                                  !.next = h[randTmp].next])
        L2 == [L1 EXCEPT !.heap = [h1 EXCEPT ![f.randTmp2].up = newLayer,
                                             ![h[randTmp].next].previous = newLayer,
                                             ![randTmp].next = newLayer]]
        brk == CapBreak(L2)
    IN [L |-> L2,
        brk |-> brk,
        f |-> [f EXCEPT !.randTmp = randTmp,
                        !.randTmp2 = newLayer,
                        !.layers = IF brk THEN @ ELSE @ + 1,
                        !.numberOfFlips = IF brk THEN @ ELSE @ + 1]]

\* The promotion loop, run to its end.
RECURSIVE PromoteLoop(_, _)
PromoteLoop(L, f) ==
    IF flipCoin(f.key, f.numberOfFlips)
    THEN LET r == PromoteIter(L, f)
         IN IF r.brk THEN r.L ELSE PromoteLoop(r.L, r.f)
    ELSE L

insert(L, key, value) ==
    LET tmp == insertPoint(L, key)
    IN IF tmp = NULL THEN [L |-> L, ret |-> Returns(Bool(FALSE))]
       ELSE LET L1 == BaseSplice(L, tmp, key, value)
            IN [L |-> PromoteLoop(L1, StartFrame(L1, tmp, key, value)),
                ret |-> Returns(Bool(TRUE))]

(* ------------------------------- erase -------------------------------- *)

\* eraseTower without the climb: only the node at tmp goes.  (A variant, to
\* see that C6 rests on the loop.)
eraseTowerBaseOnly(h, tmp) ==
    IF tmp = NULL THEN h
    ELSE LET tmpPrevious == h[tmp].previous
             tmpNext == h[tmp].next
         IN Delete([h EXCEPT ![tmpPrevious].next = tmpNext,
                             ![tmpNext].previous = tmpPrevious], tmp)

\* The loop of erase: unlink and delete the tower from tmp upwards.
RECURSIVE eraseTower(_, _)
eraseTower(h, tmp) ==
    IF tmp = NULL THEN h
    ELSE LET tmpPrevious == h[tmp].previous
             tmpNext == h[tmp].next
             h1 == [h EXCEPT ![tmpPrevious].next = tmpNext,
                             ![tmpNext].previous = tmpPrevious]
         IN eraseTower(Delete(h1, tmp), h[tmp].up)

\* erase with the layer count taken down by one while it is above 2.  (A
\* variant, to see that C11 rests on erase leaving the count alone.)
eraseCompacting(L, key) ==
    LET tmp == findNode(L, key)
    IN IF tmp = NULL THEN [L |-> L, ret |-> Throws("out_of_range")]
       ELSE [L |-> [L EXCEPT !.heap = eraseTower(L.heap, tmp),
                             !.SkipListSize = @ - 1,
                             !.SkipListLayers = IF @ > 2 THEN @ - 1 ELSE @],
             ret |-> Returns(0)]

erase(L, key) ==
    LET tmp == findNode(L, key)
    IN IF tmp = NULL THEN [L |-> L, ret |-> Throws("out_of_range")]
       ELSE [L |-> [L EXCEPT !.heap = eraseTower(L.heap, tmp),
                             !.SkipListSize = @ - 1],
             ret |-> Returns(0)]

(* ------------------------- address renaming -------------------------- *)

\* Which addresses operator new hands out is not observable, so a state is
\* kept up to a renaming of the addresses: when a call has returned the
\* nodes are numbered in the order layer 0, layer 1, ..., each from its front
\* sentinel along next (nodes no chain reaches keep their order, after these).
RECURSIVE Row(_, _, _)
Row(h, tmp, fuel) ==
    IF tmp = NULL \/ fuel = 0 THEN <<>>
    ELSE <<tmp>> \o Row(h, h[tmp].next, fuel - 1)

RECURSIVE Rows(_, _, _)
Rows(h, first, fuel) ==
    IF first = NULL \/ fuel = 0 THEN <<>>
    ELSE Row(h, first, Cardinality(DOMAIN h)) \o Rows(h, h[first].up, fuel - 1)

\* order as a function from address to place (the first place of an address
\* that occurs twice), and back.
RECURSIVE PlaceOf(_, _)
PlaceOf(order, i) ==
    IF i > Len(order) THEN <<>> ELSE (order[i] :> i) @@ PlaceOf(order, i + 1)

RECURSIVE AddressAt(_, _, _)
AddressAt(order, to, i) ==
    IF i > Len(order) THEN <<>>
    ELSE IF to[order[i]] = i THEN (i :> order[i]) @@ AddressAt(order, to, i + 1)
         ELSE AddressAt(order, to, i + 1)

RECURSIVE Ascending(_)
Ascending(S) ==
    IF S = {} THEN <<>>
    ELSE LET m == CHOOSE x \in S : \A y \in S : x <= y
         IN <<m>> \o Ascending(S \ {m})

RenamedBy(L, to, from) ==
    LET At(a) == IF a \in DOMAIN to THEN to[a] ELSE a
    IN [L EXCEPT !.heap = [n \in DOMAIN from |->
                              [L.heap[from[n]] EXCEPT !.next = At(@), !.up = At(@),
                                                      !.down = At(@),
                                                      !.previous = At(@)]],
                 !.front = At(@), !.back = At(@),
                 !.topFront = At(@), !.topBack = At(@)]

ChainOrder(h, first) ==
    LET chains == Rows(h, first, Cardinality(DOMAIN h))
    IN chains \o Ascending(DOMAIN h \ {chains[i] : i \in 1..Len(chains)})

\* (Each table is bound once, as the one element of a set.)
Normalize(L) ==
    CHOOSE N \in UNION {UNION {{RenamedBy(L, to, from) :
                                   from \in {AddressAt(order, to, 1)}} :
                               to \in {PlaceOf(order, 1)}} :
                           order \in {ChainOrder(L.heap, L.front)}} : TRUE

(* ------------------------------ actions ------------------------------- *)

\* The keys given to insert so far, while they were pairwise distinct and
\* erase was never called.
NoHist == [clean |-> FALSE, keys |-> {}]

HistInsert(k) ==
    IF hist.clean /\ k \notin hist.keys
    THEN [hist EXCEPT !.keys = @ \cup {k}] ELSE NoHist

Install(L) ==
    \E N \in {Normalize(L)} :
       /\ heap' = N.heap
       /\ front' = N.front
       /\ back' = N.back
       /\ topFront' = N.topFront
       /\ topBack' = N.topBack
       /\ SkipListSize' = N.SkipListSize
       /\ SkipListLayers' = N.SkipListLayers

Called(name, k, v, r) ==
    /\ op' = name
    /\ arg' = k
    /\ argv' = v
    /\ ret' = r

Init ==
    /\ heap = Constructed.heap
    /\ front = Constructed.front
    /\ back = Constructed.back
    /\ topFront = Constructed.topFront
    /\ topBack = Constructed.topBack
    /\ SkipListSize = Constructed.SkipListSize
    /\ SkipListLayers = Constructed.SkipListLayers
    /\ op = "construct"
    /\ arg = 0
    /\ argv = 0
    /\ ret = Returns(0)
    /\ hist = [clean |-> TRUE, keys |-> {}]
    /\ pc = "idle"
    /\ frame = NoFrame

\* The calls that change the container.  A query changes nothing, so what
\* the driver does after one it can do before it: a run is followed up to its
\* first query, which reaches every container and every answer to a query
\* of it.
Mutators == {"construct", "insert", "erase"}

CallInsert(k, v) ==
    /\ pc = "idle"
    /\ op \in Mutators
    /\ SkipListSize < MaxSize
    /\ LET r == insert(Self, k, v)
       IN Install(r.L) /\ Called("insert", k, v, r.ret)
    /\ hist' = HistInsert(k)
    /\ UNCHANGED <<pc, frame>>

CallErase(k) ==
    /\ pc = "idle"
    /\ op \in Mutators
    /\ LET r == erase(Self, k)
       IN Install(r.L) /\ Called("erase", k, 0, r.ret)
    /\ hist' = NoHist
    /\ UNCHANGED <<pc, frame>>

Query(name, k, r) ==
    /\ pc = "idle"
    /\ op \in Mutators
    /\ Called(name, k, 0, r)
    /\ UNCHANGED <<heap, front, back, topFront, topBack, SkipListSize,
                   SkipListLayers, hist, pc, frame>>

CallFind(k) == Query("find", k, find(Self, k))

CallHeight(k) == Query("height", k, height(Self, k))

CallNextKey(k) == Query("nextKey", k, nextKey(Self, k))

CallPreviousKey(k) == Query("previousKey", k, previousKey(Self, k))

CallIsSmallestKey(k) == Query("isSmallestKey", k, isSmallestKey(Self, k))

CallIsLargestKey(k) == Query("isLargestKey", k, isLargestKey(Self, k))

Next ==
    \E k \in Keys :
        \/ \E v \in Values : CallInsert(k, v)
        \/ CallErase(k)
        \/ CallFind(k)
        \/ CallHeight(k)
        \/ CallNextKey(k)
        \/ CallPreviousKey(k)
        \/ CallIsSmallestKey(k)
        \/ CallIsLargestKey(k)

Spec == Init /\ [][Next]_vars

(* ------------------- insert, one loop pass at a time ------------------ *)

Members == <<heap, front, back, topFront, topBack, SkipListSize, SkipListLayers>>

Range(q) == {q[i] : i \in 1..Len(q)}

\* key is in the container: a real node of the base layer holds it.
Present(L, key) == key \in Range(allKeysInOrder(L))

\* Nodes the memory holds: operator new throws std::bad_alloc beyond it.
MaxNodes == 100

\* Most filler keys the driver of CapSpec keeps in the container.
MaxFill == 16

\* A key whose four bytes XOR to 0xFF, 255: every promotion attempt succeeds.
TallKey == Pow2(NUMBER_OF_BITS_IN_BYTE) - 1

\* The i-th filler key, 0x0101 * i: its bytes XOR to 0, so its height is 1.
Filler(i) == 257 * i

Fillers(L) == Cardinality(Range(allKeysInOrder(L)) \ {TallKey})

Pending == [exc |-> "pending", val |-> 0]

Keep(L) ==
    /\ heap' = L.heap
    /\ front' = L.front
    /\ back' = L.back
    /\ topFront' = L.topFront
    /\ topBack' = L.topBack
    /\ SkipListSize' = L.SkipListSize
    /\ SkipListLayers' = L.SkipListLayers

\* insert up to the promotion loop.
BeginInsert(k, v) ==
    /\ pc = "idle"
    /\ Cardinality(DOMAIN heap) < MaxNodes
    /\ LET tmp == insertPoint(Self, k)
       IN IF tmp = NULL
          THEN /\ Called("insert", k, v, Returns(Bool(FALSE)))
               /\ UNCHANGED <<Members, pc, frame>>
          ELSE LET L1 == BaseSplice(Self, tmp, k, v)
               IN /\ Keep(L1)
                  /\ Called("insert", k, v, Pending)
                  /\ pc' = "promote"
                  /\ frame' = StartFrame(L1, tmp, k, v)
    /\ hist' = HistInsert(k)

\* Nodes the next pass of the loop allocates.
NodesNeeded == IF frame.layers = SkipListLayers - 1 THEN 3 ELSE 1

\* flipCoin gives false: return true.
LoopExit ==
    /\ pc = "promote"
    /\ ~flipCoin(frame.key, frame.numberOfFlips)
    /\ Install(Self)
    /\ pc' = "idle"
    /\ frame' = NoFrame
    /\ ret' = Returns(Bool(TRUE))
    /\ UNCHANGED <<op, arg, argv, hist>>

\* One pass of the loop: on to the next pass, or break and return true.
LoopBody ==
    /\ pc = "promote"
    /\ flipCoin(frame.key, frame.numberOfFlips)
    /\ Cardinality(DOMAIN heap) + NodesNeeded <= MaxNodes
    /\ \E r \in {PromoteIter(Self, frame)} :
          IF r.brk
          THEN /\ Install(r.L)
               /\ pc' = "idle"
               /\ frame' = NoFrame
               /\ ret' = Returns(Bool(TRUE))
          ELSE /\ Keep(r.L)
               /\ pc' = "promote"
               /\ frame' = r.f
               /\ ret' = ret
    /\ UNCHANGED <<op, arg, argv, hist>>

\* operator new throws: insert is left by std::bad_alloc.
BadAlloc ==
    /\ pc = "promote"
    /\ flipCoin(frame.key, frame.numberOfFlips)
    /\ Cardinality(DOMAIN heap) + NodesNeeded > MaxNodes
    /\ pc' = "bad_alloc"
    /\ ret' = Throws("bad_alloc")
    /\ UNCHANGED <<Members, op, arg, argv, hist, frame>>

\* The driver of CapSpec: it keeps the fillers Filler(1), ..., Filler(n) and
\* maybe TallKey, never inserts a key that is present, and erases TallKey or
\* the largest filler.
CapInsert ==
    \/ ~Present(Self, TallKey) /\ BeginInsert(TallKey, 7)
    \/ Fillers(Self) < MaxFill /\ BeginInsert(Filler(Fillers(Self) + 1), 7)

CapErase ==
    \/ Present(Self, TallKey) /\ CallErase(TallKey)
    \/ Fillers(Self) > 0 /\ CallErase(Filler(Fillers(Self)))

CapNext == CapInsert \/ CapErase \/ LoopExit \/ LoopBody \/ BadAlloc

CapSpec == Init /\ [][CapNext]_vars

(* -------------------- towers up to the layer cap ---------------------- *)

\* Keys the driver of TowerSpec passes in: heights 1, 3 and, for TallKey, as
\* high as the cap lets it be.
TowerKeys == {0, 3, TallKey}

TowerNext ==
    \E k \in TowerKeys :
        \/ \E v \in Values : CallInsert(k, v)
        \/ CallErase(k)
        \/ CallHeight(k)

TowerSpec == Init /\ [][TowerNext]_vars

(* --------------------------- the scenario ----------------------------- *)

\* The keys of the scenario, in the order they are inserted.
Script == <<0, 5, 3, 9, 1>>

\* The key the scenario erases: the third one inserted.
ScriptErased == Script[3]

\* The driver of ScenarioSpec: it inserts the keys of Script in order (hist
\* holds those given so far), each with either value, then erases
\* ScriptErased; any query of a key of Script may end the run at any point.
ScriptInsert ==
    /\ hist.clean
    /\ Cardinality(hist.keys) < Len(Script)
    /\ \E v \in Values : BeginInsert(Script[Cardinality(hist.keys) + 1], v)

ScriptErase ==
    /\ hist.clean
    /\ hist.keys = Range(Script)
    /\ CallErase(ScriptErased)

ScriptQuery ==
    \E k \in Range(Script) :
        \/ CallFind(k)
        \/ CallNextKey(k)
        \/ CallPreviousKey(k)
        \/ CallIsSmallestKey(k)
        \/ CallIsLargestKey(k)

ScenarioNext == ScriptInsert \/ LoopBody \/ LoopExit \/ ScriptErase \/ ScriptQuery

ScenarioSpec == Init /\ [][ScenarioNext]_vars

(* ---------------------- the promotion function ------------------------ *)

\* Largest attempt index the driver of FlipSpec passes in.
MaxFlips == 17

\* Integer keys of FlipSpec: each byte of the key matters in some of them,
\* and the sign bit in the negative ones.
FlipKeys == {-2147483647, -256, -1, 0, 1, 3, 255, 256, 257, 65536, 65793,
             16777216, 2147483647}

\* Characters (as bytes) and the strings of FlipSpec, up to two characters.
FlipChars == {0, 97, 98, 255}

FlipStrings == {<<>>} \cup {<<c>> : c \in FlipChars}
                      \cup {<<c, d>> : c \in FlipChars, d \in FlipChars}

Flipped(name, key, previousFlips, r) ==
    /\ Called(name, key, previousFlips, Returns(Bool(r)))
    /\ UNCHANGED <<Members, hist, pc, frame>>

CallFlipCoin(key, previousFlips) ==
    Flipped("flipCoin", key, previousFlips, flipCoin(key, previousFlips))

CallFlipCoinString(key, previousFlips) ==
    Flipped("flipCoinString", key, previousFlips, flipCoinString(key, previousFlips))

FlipNext ==
    \E previousFlips \in 0..MaxFlips :
        \/ \E key \in FlipKeys : CallFlipCoin(key, previousFlips)
        \/ \E key \in FlipStrings : CallFlipCoinString(key, previousFlips)

FlipSpec == Init /\ [][FlipNext]_vars

(* ------------------------------ claims -------------------------------- *)

StrictlyAscending(q) == \A i \in 1..(Len(q) - 1) : q[i] < q[i + 1]

Queries == {"find", "height", "nextKey", "previousKey", "isSmallestKey",
            "isLargestKey"}

\* C1: insert of a key that is present returns false and changes nothing
\* (size, layers, the keys, the values, the towers).
C1_DuplicateInsertRejected ==
    [][(op' = "insert" /\ Present(Self, arg'))
          => (ret' = Returns(0) /\ UNCHANGED Members)]_vars

\* C2: insert of a key that is not present returns true, adds one to size()
\* and find then yields the value given.
C2_AbsentInsertAccepted ==
    [][(op' = "insert" /\ ~Present(Self, arg'))
          => /\ ret' = Returns(1)
             /\ SkipListSize' = SkipListSize + 1
             /\ find(Self, arg)' = Returns(argv')]_vars

\* C3: the keys of the base layer are strictly ascending, so no key is
\* there twice.
C3_BaseStrictlyAscending == StrictlyAscending(allKeysInOrder(Self))

\* C4: after n inserts of pairwise distinct keys and no erase, size() is n
\* and allKeysInOrder() is those n keys in ascending order.
C4_DistinctInserts ==
    hist.clean => /\ SkipListSize = Cardinality(hist.keys)
                  /\ allKeysInOrder(Self) = Ascending(hist.keys)

\* C5: right after an erase(k) that succeeded, find, height, nextKey and
\* previousKey of k throw out_of_range and k is not in allKeysInOrder().
C5_ErasedKeyGone ==
    (op = "erase" /\ ret.exc = "none")
       => /\ find(Self, arg).exc = "out_of_range"
          /\ height(Self, arg).exc = "out_of_range"
          /\ nextKey(Self, arg).exc = "out_of_range"
          /\ previousKey(Self, arg).exc = "out_of_range"
          /\ ~Present(Self, arg)

\* The addresses of layer i from its front sentinel to its back sentinel.
RECURSIVE FrontOf(_, _, _)
FrontOf(h, first, i) == IF i = 0 THEN first ELSE FrontOf(h, h[first].up, i - 1)

LayerRow(L, i) == Row(L.heap, FrontOf(L.heap, L.front, i), Cardinality(DOMAIN L.heap))

RECURSIVE TowerFrom(_, _)
TowerFrom(h, tmp) == IF tmp = NULL THEN {} ELSE {tmp} \cup TowerFrom(h, h[tmp].up)

\* The keys and values of a row of addresses, in order, without those in skip.
RECURSIVE Content(_, _, _)
Content(h, row, skip) ==
    IF row = <<>> THEN <<>>
    ELSE (IF row[1] \in skip THEN <<>> ELSE <<<<h[row[1]].key, h[row[1]].value>>>>)
         \o Content(h, Tail(row), skip)

\* C6: erase of a present key k takes the nodes of one tower of k, one from
\* each of the height(k) lowest layers, out of the layers and leaves every
\* layer otherwise as it was; size() drops by 1, layers() stays, and every
\* other key keeps its value and its height.
C6_EraseFrame ==
    [][(op' = "erase" /\ Present(Self, arg'))
          => LET tower == TowerFrom(heap, findNode(Self, arg'))
             IN /\ ret' = Returns(0)
                /\ SkipListSize' = SkipListSize - 1
                /\ SkipListLayers' = SkipListLayers
                /\ Cardinality(tower) = height(Self, arg').val
                /\ \A i \in 0..(SkipListLayers - 1) :
                      /\ Content(heap, LayerRow(Self, i), tower)
                            = Content(heap, LayerRow(Self, i), {})'
                      /\ Cardinality(tower \cap Range(LayerRow(Self, i)))
                            = IF i < height(Self, arg').val THEN 1 ELSE 0
                /\ \A k \in Keys \ {arg'} :
                      /\ find(Self, k)' = find(Self, k)
                      /\ height(Self, k)' = height(Self, k)]_vars

\* The tower of 1, two nodes high, was erased from between two keys that stay.
C6_Witness ==
    /\ op = "erase" /\ ret.exc = "none" /\ arg = 1
    /\ allKeysInOrder(Self) = <<0, 3>>

\* C7: a query or an erase of a key that is not present throws out_of_range
\* and changes nothing.
C7_AbsentKeyNotFound ==
    [][(op' \in Queries \cup {"erase"} /\ ~Present(Self, arg'))
          => (ret' = Throws("out_of_range") /\ UNCHANGED Members)]_vars

\* erase(0) has thrown while 0, the key of the sentinels, is not among the
\* keys that are present.
C7_Witness ==
    /\ op = "erase" /\ arg = 0 /\ ret.exc = "out_of_range"
    /\ SkipListSize = 2 /\ ~Present(Self, 0)

\* C8: whatever a call throws is out_of_range, also nextKey of the largest
\* key and previousKey of the smallest key.
C8_OnlyOutOfRange == ret.exc \in {"none", "out_of_range"}

\* The cap on the layer count for n keys.
LayerCap(n) == IF n <= 16 THEN 13 ELSE 3 * CeilLog2(n) + 1

\* C9: every insert returns: the promotion loop ends after finitely many
\* passes, so no call stays in it until the memory is used up.  (The driver
\* of CapSpec never holds more than MaxFill + 1 keys, whose towers and
\* sentinels need fewer than MaxNodes nodes as long as the layer count is
\* within its cap.)
C9_InsertReturns == pc # "bad_alloc"

\* C10: an insert adds no layer that takes layers() over the cap for the
\* key count of that moment.
C10_LayersCapped ==
    [][SkipListLayers' > SkipListLayers
          => SkipListLayers' <= LayerCap(SkipListSize')]_vars

\* C11: a freshly constructed container has layers() == 2, size() == 0 and
\* empty() true, and no insert, erase or query ever lowers layers().
C11_LayersStartAtTwoAndNeverDrop ==
    /\ (layers(Self) = 2 /\ size(Self) = 0 /\ empty(Self))
    /\ [][layers(Self)' >= layers(Self)]_vars

\* Two layers were added for the tower of 3, and the container has been
\* emptied again by erase.
C11_Witness ==
    /\ op = "erase" /\ ret.exc = "none" /\ arg = 3
    /\ empty(Self) /\ layers(Self) = 4

\* C12: for every key k that is present, height(k) returns, and what it
\* returns is at least 1 and at most layers().
C12_HeightWithinLayers ==
    /\ \A k \in Keys \cup TowerKeys :
          Present(Self, k) => /\ height(Self, k).exc = "none"
                              /\ 1 <= height(Self, k).val
                              /\ height(Self, k).val <= layers(Self)
    /\ (op = "height" /\ Present(Self, arg))
          => (ret.exc = "none" /\ 1 <= ret.val /\ ret.val <= layers(Self))

\* height(TallKey) has returned 12 in a container of 13 layers.
C12_Witness ==
    /\ op = "height" /\ arg = TallKey /\ ret = Returns(12)
    /\ layers(Self) = 13

Least(S) == CHOOSE x \in S : \A y \in S : x <= y

Greatest(S) == CHOOSE x \in S : \A y \in S : x >= y

C14_ExtremesAgree ==
    LET keys == allKeysInOrder(Self)
    IN /\ \A k \in Keys :
             Present(Self, k) =>
                /\ isSmallestKey(Self, k) = Returns(Bool(k = keys[1]))
                /\ isLargestKey(Self, k) = Returns(Bool(k = keys[Len(keys)]))
       /\ (op = "isSmallestKey" /\ Present(Self, arg))
             => ret = Returns(Bool(arg = keys[1]))
       /\ (op = "isLargestKey" /\ Present(Self, arg))
             => ret = Returns(Bool(arg = keys[Len(keys)]))

\* isSmallestKey(0) has returned false: 0, the key the sentinels hold, is
\* present and -1 comes before it.
C14_Witness ==
    /\ op = "isSmallestKey" /\ arg = 0 /\ ret = Returns(0)
    /\ allKeysInOrder(Self) = <<-1, 0, 3>>
    /\ isLargestKey(Self, 3) = Returns(1)

\* C15: after insert of 0, 5, 3, 9, 1 in that order into an empty container,
\* allKeysInOrder() is [0, 1, 3, 5, 9], nextKey(0) is 1, previousKey(9) is
\* 5, isSmallestKey(0) and isLargestKey(9) are true; after erase(3),
\* find(3) throws out_of_range and allKeysInOrder() is [0, 1, 5, 9].
C15_Scenario ==
    /\ (hist.clean /\ hist.keys = Range(Script) /\ pc = "idle")
          => /\ allKeysInOrder(Self) = <<0, 1, 3, 5, 9>>
             /\ nextKey(Self, 0) = Returns(1)
             /\ previousKey(Self, 9) = Returns(5)
             /\ isSmallestKey(Self, 0) = Returns(1)
             /\ isLargestKey(Self, 9) = Returns(1)
             /\ (op = "nextKey" /\ arg = 0) => ret = Returns(1)
             /\ (op = "previousKey" /\ arg = 9) => ret = Returns(5)
             /\ (op = "isSmallestKey" /\ arg = 0) => ret = Returns(1)
             /\ (op = "isLargestKey" /\ arg = 9) => ret = Returns(1)
    /\ ~hist.clean
          => /\ find(Self, ScriptErased) = Throws("out_of_range")
             /\ allKeysInOrder(Self) = <<0, 1, 5, 9>>
             /\ (op = "find" /\ arg = ScriptErased) => ret = Throws("out_of_range")

\* The whole scenario has run: find(3) has thrown after the erase.
C15_Witness ==
    /\ ~hist.clean /\ op = "find" /\ arg = ScriptErased
    /\ ret.exc = "out_of_range" /\ size(Self) = 4

\* Bit n of the 32 bits of an int key in two's complement (bit 31 is the sign).
KeyBit(key, n) == IF n = 31 THEN Bool(key < 0) ELSE (key \div Pow2(n)) % 2

\* Bit j of the XOR of the four bytes of key: set when an odd number of the
\* four bytes have their bit j set.
HashBitSet(key, j) ==
    (KeyBit(key, j) + KeyBit(key, 8 + j) + KeyBit(key, 16 + j)
        + KeyBit(key, 24 + j)) % 2 = 1

\* The same for the characters of a string.
RECURSIVE CharBits(_, _)
CharBits(key, j) ==
    IF key = <<>> THEN 0 ELSE Bit(Head(key), j) + CharBits(Tail(key), j)

\* C16: flipCoin(key, i) of an integer key is true exactly when bit i mod 8
\* of the XOR of the four bytes of the key is set; so flipCoin(key, i) is
\* flipCoin(key, i + 8), and a key whose bytes XOR to zero fails every
\* attempt.  The string overload selects the same bit of the XOR of the
\* characters.  (What a call returns is a function of its two arguments.)
C16_FlipCoinSelectsHashBit ==
    /\ op = "flipCoin"
          => /\ ret = Returns(Bool(HashBitSet(arg, argv % 8)))
             /\ ret = Returns(Bool(flipCoin(arg, argv + 8)))
             /\ (\A j \in 0..7 : ~HashBitSet(arg, j)) => ret = Returns(0)
    /\ op = "flipCoinString"
          => /\ ret = Returns(Bool(CharBits(arg, argv % 8) % 2 = 1))
             /\ ret = Returns(Bool(flipCoinString(arg, argv + 8)))

\* flipCoin(-256, 9) has returned true: the bytes FF FF FF 00 XOR to FF, and
\* attempt 9 selects bit 1.
C16_Witness == op = "flipCoin" /\ arg = -256 /\ argv = 9 /\ ret = Returns(1)

\* C17: the topmost layer holds its two sentinels and nothing else, in every
\* state, also between two passes of the promotion loop: a pass that takes
\* a tower up to the topmost layer adds a layer above it first.
C17_TopLayerSpare ==
    /\ heap[topFront].next = topBack
    /\ heap[topBack].previous = topFront
    /\ heap[topFront].up = NULL
    /\ heap[topBack].up = NULL

\* insert(TallKey) has returned after the cap test ended its loop: the tower
\* is 12 nodes high under 13 layers.
C17_Witness ==
    /\ pc = "idle" /\ op = "insert" /\ arg = TallKey /\ ret = Returns(1)
    /\ layers(Self) = 13 /\ height(Self, TallKey) = Returns(12)

\* The real nodes of layer i: the row without its two sentinels.
RealNodes(L, i) ==
    LET row == LayerRow(L, i)
    IN {row[j] : j \in 2..(Len(row) - 1)}

\* Every real node above the base has, as down, a real node of the layer
\* below with the same key whose up is that node; every up link of a real
\* node leads to a real node of the layer above; base nodes have no down.
Contiguous(L) ==
    \A i \in 0..(L.SkipListLayers - 1) :
       \A n \in RealNodes(L, i) :
          /\ IF i = 0 THEN L.heap[n].down = NULL
             ELSE /\ L.heap[n].down \in RealNodes(L, i - 1)
                  /\ L.heap[L.heap[n].down].key = L.heap[n].key
                  /\ L.heap[L.heap[n].down].up = n
          /\ L.heap[n].up # NULL
                => /\ i + 1 < L.SkipListLayers
                   /\ L.heap[n].up \in RealNodes(L, i + 1)

\* The nodes that exist are those of the layers, and no link leads to a node
\* that was deleted.
NoneLost(L) ==
    /\ DOMAIN L.heap = UNION {Range(LayerRow(L, i)) : i \in 0..(L.SkipListLayers - 1)}
    /\ \A n \in DOMAIN L.heap :
          {L.heap[n].next, L.heap[n].previous, L.heap[n].up, L.heap[n].down}
             \subseteq DOMAIN L.heap \cup {NULL}

\* C18: towers are contiguous in every state (a real node above the base
\* stands on a node of the same key that points back up to it, so a key of
\* layer i is in every layer below), and an erase that succeeds takes all
\* the nodes of the tower it erases, height(k) of them, out of the layers:
\* none of them is reachable afterwards.
C18_TowersContiguous ==
    /\ [](Contiguous(Self) /\ NoneLost(Self))
    /\ [][(op' = "erase" /\ ret'.exc = "none")
             => Cardinality(DOMAIN heap')
                   = Cardinality(DOMAIN heap) - height(Self, arg').val]_vars

\* The tower of 3, three nodes high, was erased while the tower of 1, two
\* nodes high, stays.
C18_Witness ==
    /\ op = "erase" /\ ret.exc = "none" /\ arg = 3
    /\ height(Self, 1) = Returns(2) /\ layers(Self) = 4
    /\ ~Present(Self, 3)

\* The number of attempt indices i, i + 1, ... in a row for which flipCoin is
\* true of key (all eight bits of the hash set: no attempt ever fails, and
\* the count stops at 8).
RECURSIVE Streak(_, _)
Streak(key, i) ==
    IF i < NUMBER_OF_BITS_IN_BYTE /\ flipCoin(key, i) THEN 1 + Streak(key, i + 1)
    ELSE 0

\* C19: when insert(k) has returned true and layers() is below the cap for
\* the key count, height(k) is 1 plus the number of attempts 0, 1, 2, ... in
\* a row that flipCoin grants k, whatever else is in the container and
\* whatever was called before.
C19_HeightFromFlips ==
    [][\A k \in Keys \cup TowerKeys :
          (op' = "insert" /\ arg' = k /\ ret' = Returns(1)
              /\ layers(Self)' < LayerCap(size(Self)'))
             => height(Self, k)' = Returns(1 + Streak(k, 0))]_vars

\* insert(3) has returned with a tower of 3 beside a key present twice, 0,
\* in 4 layers: far below the cap.
C19_Witness ==
    /\ op = "insert" /\ arg = 3 /\ ret = Returns(1)
    /\ allKeysInOrder(Self) = <<0, 0, 3>>
    /\ height(Self, 3) = Returns(3) /\ layers(Self) = 4

Max(a, b) == IF a >= b THEN a ELSE b

\* C20: an insert(k) that returns true leaves layers() at the greater of
\* what it was before the call and height(k) + 1: it adds the layers the new
\* tower needs under a spare one, and no more.
C20_LayersAsTowerNeeds ==
    [][\A k \in Keys \cup TowerKeys :
          (op' = "insert" /\ arg' = k /\ ret' = Returns(1))
             => /\ height(Self, k)'.exc = "none"
                /\ layers(Self)' = Max(layers(Self), height(Self, k)'.val + 1)]_vars

\* insert(TallKey) has returned in a container that had 4 layers for the
\* tower of 3: it has 13 now, under a tower of 12.
C20_Witness ==
    /\ op = "insert" /\ arg = TallKey /\ ret = Returns(1)
    /\ Present(Self, 3) /\ height(Self, 3) = Returns(3)
    /\ height(Self, TallKey) = Returns(12) /\ layers(Self) = 13

\* The keys of the real nodes of layer i, from front to back.
LayerKeys(L, i) ==
    LET row == LayerRow(L, i)
    IN [j \in 1..(Len(row) - 2) |-> L.heap[row[j + 1]].key]

\* The back sentinel of layer i.
RECURSIVE BackOf(_, _, _)
BackOf(h, last, i) == IF i = 0 THEN last ELSE BackOf(h, h[last].up, i - 1)

NonDecreasing(q) == \A j \in 1..(Len(q) - 1) : q[j] <= q[j + 1]

\* p is q with some of its elements left out.
RECURSIVE IsSubsequence(_, _)
IsSubsequence(p, q) ==
    IF p = <<>> THEN TRUE
    ELSE IF q = <<>> THEN FALSE
    ELSE IF Head(p) = Head(q) THEN IsSubsequence(Tail(p), Tail(q))
    ELSE IsSubsequence(p, Tail(q))

\* The row of layer i runs from its front sentinel to its back sentinel, and
\* previous leads back along it node by node.
LinksInverse(L, i) ==
    LET row == LayerRow(L, i)
    IN /\ Len(row) >= 2
       /\ row[Len(row)] = BackOf(L.heap, L.back, i)
       /\ L.heap[row[Len(row)]].next = NULL
       /\ L.heap[row[1]].previous = NULL
       /\ \A j \in 1..(Len(row) - 1) : L.heap[row[j + 1]].previous = row[j]

\* The nodes the nodes of layer i stand on, in the order of layer i.
DownRow(L, i) ==
    LET row == LayerRow(L, i)
    IN [j \in 1..Len(row) |-> L.heap[row[j]].down]

\* C21: in every state, every layer above the base has its keys in
\* non-decreasing order from front to back and is a subsequence of the layer
\* directly below it (as keys, and as the nodes it stands on), and in every
\* layer previous is the exact inverse of next.
C21_LayersOrderedAndLinked ==
    /\ \A i \in 0..(layers(Self) - 1) : LinksInverse(Self, i)
    /\ \A i \in 1..(layers(Self) - 1) :
          /\ NonDecreasing(LayerKeys(Self, i))
          /\ IsSubsequence(LayerKeys(Self, i), LayerKeys(Self, i - 1))
          /\ IsSubsequence(DownRow(Self, i), LayerRow(Self, i - 1))

\* insert(1) has put a node between the towers of -1 and 3 in the base layer
\* and before that of 3 in the layer above.
C21_Witness ==
    /\ op = "insert" /\ arg = 1 /\ ret = Returns(1)
    /\ hist.keys = {-1, 3, 1}
    /\ LayerKeys(Self, 0) = <<-1, 1, 3>>
    /\ LayerKeys(Self, 1) = <<1, 3>>
    /\ LayerKeys(Self, 2) = <<3>>
    /\ LayerKeys(Self, 3) = <<>>

====
